---- MODULE Spec2Model ----
(***************************************************************************)
(* Model of the auto-currying engine of HaskPy (src/haskpy/utils.py):      *)
(* curry, curry_new, Wrapped/wraps and count_required_arguments, together  *)
(* with the two pieces of the Python runtime the engine is built on: the   *)
(* argument binding of a call of the target and the signature that        *)
(* inspect.getfullargspec reports for a functools.partial object.          *)
(***************************************************************************)
EXTENDS Integers, Sequences, FiniteSets, TLC

\* Bounds of the exploration.
MaxHeap == 3
MaxArgs == 2
MaxKw == 1

\* Argument values.  BadValue is the input the faulting targets choke on
\* (the "supplied zero" of a division).
Values == {"v1", "v2"}
BadValue == "v2"

\* Values passed by keyword.
KwValues == {"v1"}

\* Names a caller may pass by keyword: positional parameters, a keyword-only
\* parameter and a name no target declares.
KwNames == {"x", "y", "k", "q"}

Min(S) == CHOOSE m \in S : \A n \in S : m <= n

Range(s) == {s[i] : i \in DOMAIN s}

----------------------------------------------------------------------------
(* The objects handed to curry.  A callable one is a Python function or a   *)
(* bound method (bound = TRUE: the underlying function has a leading self   *)
(* that the method object already supplies).  pos are the positional-or-    *)
(* keyword parameters the caller sees, the last ndef of them with defaults. *)
(* fault is what the body raises when it is given BadValue.                 *)

Obj(name, pos, ndef, varargs, kwonly, kwdef, varkw, bound, fault) ==
    [name |-> name, callable |-> TRUE, pos |-> pos, ndef |-> ndef,
     varargs |-> varargs, kwonly |-> kwonly, kwdef |-> kwdef, varkw |-> varkw,
     bound |-> bound, fault |-> fault, doc |-> "doc of " \o name]

addThree == Obj("addThree", <<"x", "y", "z">>, 0, FALSE, {}, {}, FALSE, FALSE, "none")
sub      == Obj("sub", <<"x", "y">>, 0, FALSE, {}, {}, FALSE, FALSE, "TypeError")
chk      == Obj("chk", <<"x", "y">>, 1, FALSE, {"k"}, {}, FALSE, FALSE, "ValueError")
var      == Obj("var", <<"x">>, 0, TRUE, {}, {}, FALSE, FALSE, "TypeError")
kws      == Obj("kws", <<"x", "y">>, 0, FALSE, {}, {}, TRUE, FALSE, "none")
nullary  == Obj("nullary", <<>>, 0, FALSE, {}, {}, FALSE, FALSE, "none")
method   == Obj("A.m", <<"x", "y">>, 0, FALSE, {}, {}, FALSE, TRUE, "TypeError")
vmethod  == Obj("A.mv", <<"x">>, 0, TRUE, {}, {}, FALSE, TRUE, "TypeError")

Targets == {addThree, sub, chk, var, kws, nullary, method, vmethod}

NonCallables ==
    {[name |-> "int", callable |-> FALSE, pos |-> <<>>, ndef |-> 0,
      varargs |-> FALSE, kwonly |-> {}, kwdef |-> {}, varkw |-> FALSE,
      bound |-> FALSE, fault |-> "none", doc |-> "doc of int"]}

Objects == Targets \cup NonCallables

\* curry without its callable check.
CallableUnchecked(v) == TRUE

\* callable(f)
Callable(v) == v.callable

----------------------------------------------------------------------------
(* Keyword arguments are ordered dicts: sequences of <<name, value>> with   *)
(* distinct names.                                                          *)

KwKeys(kw) == {kw[i][1] : i \in DOMAIN kw}

KwGet(kw, n) == kw[CHOOSE i \in DOMAIN kw : kw[i][1] = n][2]

\* dict.update of one item: a known key keeps its place and takes the new
\* value, a new key goes last.
KwSet(kw, item) ==
    IF item[1] \in KwKeys(kw)
    THEN [i \in DOMAIN kw |-> IF kw[i][1] = item[1] THEN item ELSE kw[i]]
    ELSE Append(kw, item)

\* {**old, **new}
RECURSIVE KwMerge(_, _)
KwMerge(old, new) ==
    IF new = <<>> THEN old ELSE KwMerge(KwSet(old, Head(new)), Tail(new))

----------------------------------------------------------------------------
(* The call of a target with positional arguments args and keyword          *)
(* arguments kw, as the interpreter binds it (utils.py line 322).  The      *)
(* checks come in the interpreter's order: keywords one by one, then the    *)
(* positional count, then the missing parameters; the body runs only when   *)
(* the binding is complete.                                                 *)

Raise(exc, why) == [kind |-> "raise", exc |-> exc, why |-> why]

PosIndex(t, n) ==
    IF \E i \in DOMAIN t.pos : t.pos[i] = n
    THEN CHOOSE i \in DOMAIN t.pos : t.pos[i] = n
    ELSE 0

\* The keyword items the binding rejects: a positional parameter that a
\* positional argument already filled, or a name that is no parameter when
\* there is no ** collector.
BadKw(t, nargs, kw) ==
    {i \in DOMAIN kw :
        LET n == kw[i][1] IN
        IF PosIndex(t, n) > 0 THEN PosIndex(t, n) <= nargs
        ELSE IF n \in t.kwonly THEN FALSE
        ELSE ~t.varkw}

MissingParams(t, nargs, kw) ==
    {t.pos[i] : i \in {j \in DOMAIN t.pos :
                          /\ j > nargs
                          /\ j <= Len(t.pos) - t.ndef
                          /\ t.pos[j] \notin KwKeys(kw)}}
    \cup {n \in t.kwonly : n \notin t.kwdef /\ n \notin KwKeys(kw)}

\* What the body sees: every parameter with its value (or its default), the
\* surplus positional arguments and the surplus keyword arguments.
BoundArguments(t, args, kw) ==
    [params |-> [n \in Range(t.pos) \cup t.kwonly |->
                    IF PosIndex(t, n) > 0 /\ PosIndex(t, n) <= Len(args)
                    THEN args[PosIndex(t, n)]
                    ELSE IF n \in KwKeys(kw) THEN KwGet(kw, n)
                    ELSE "default"],
     rest   |-> IF Len(args) > Len(t.pos)
                THEN SubSeq(args, Len(t.pos) + 1, Len(args)) ELSE <<>>,
     extra  |-> {kw[i] : i \in {j \in DOMAIN kw :
                     kw[j][1] \notin Range(t.pos) \cup t.kwonly}}]

Body(t, args, kw) ==
    IF t.fault # "none" /\ BadValue \in Range(args) \cup {kw[i][2] : i \in DOMAIN kw}
    THEN Raise(t.fault, "inside " \o t.name)
    ELSE [kind |-> "value", val |-> BoundArguments(t, args, kw)]

Apply(t, args, kw) ==
    LET bad == BadKw(t, Len(args), kw) IN
    IF bad # {}
    THEN IF PosIndex(t, kw[Min(bad)][1]) > 0
         THEN Raise("TypeError", "multiple values for argument")
         ELSE Raise("TypeError", "unexpected keyword argument")
    ELSE IF Len(args) > Len(t.pos) /\ ~t.varargs
    THEN Raise("TypeError", "too many positional arguments")
    ELSE IF MissingParams(t, Len(args), kw) # {}
    THEN Raise("TypeError", "missing required arguments")
    ELSE Body(t, args, kw)

----------------------------------------------------------------------------
(* functools.partial.  A callable is a target (kind "function", nothing     *)
(* bound) or a partial object holding the target and the accumulated        *)
(* arguments; a partial of a partial is flattened.                          *)

Function(t) == [kind |-> "function", func |-> t, args |-> <<>>, keywords |-> <<>>]

\* A partial that puts the new positional arguments before the held ones.
PartialPrepend(f, args, kw) ==
    [kind |-> "partial", func |-> f.func,
     args |-> args \o f.args, keywords |-> KwMerge(f.keywords, kw)]

Partial(f, args, kw) ==
    [kind |-> "partial", func |-> f.func,
     args |-> f.args \o args, keywords |-> KwMerge(f.keywords, kw)]

\* f(*args, **kwargs) for a target or a partial object.
Call(f, args, kw) == Apply(f.func, f.args \o args, KwMerge(f.keywords, kw))

----------------------------------------------------------------------------
(* inspect.getfullargspec (utils.py lines 337 and 395).  It reads the       *)
(* signature of the underlying function without dropping the first          *)
(* parameter of a bound method (documented: "includes the already bound     *)
(* first parameter in the signature output for bound methods"), binds the   *)
(* partial object's arguments to it with Signature.bind_partial and reports *)
(* what is left.  Any failure on the way is turned into TypeError.          *)

\* The positional parameters the inspector sees.
SigPos(t) == IF t.bound THEN <<"self">> \o t.pos ELSE t.pos

\* Signature.bind_partial accepts the arguments.
BindPartialOK(t, args, kw) ==
    LET sp == SigPos(t) IN
    /\ Len(args) > Len(sp) => t.varargs
    /\ \A i \in DOMAIN sp : i <= Len(args) => sp[i] \notin KwKeys(kw)
    /\ KwKeys(kw) \subseteq Range(sp) \cup t.kwonly \/ t.varkw

\* First positional parameter bound by keyword: it and everything after it
\* become keyword-only and the * collector is dropped.
FirstKw(t, args, kw) ==
    LET sp == SigPos(t)
        S  == {i \in DOMAIN sp : i > Len(args) /\ sp[i] \in KwKeys(kw)}
    IN IF S = {} THEN Len(sp) + 1 ELSE Min(S)

HasDefault(t, i) == i > Len(SigPos(t)) - t.ndef

\* The FullArgSpec of a target or a partial object (defaults stands for the
\* tuple of default values, one entry per defaulted parameter; <<>> is None).
FullArgSpec(f) ==
    LET t  == f.func
        sp == SigPos(t)
        fk == FirstKw(t, f.args, f.keywords)
        lo == Len(f.args) + 1
        moved == {sp[i] : i \in {j \in DOMAIN sp : j >= fk}}
    IN [args           |-> IF lo <= fk - 1 THEN SubSeq(sp, lo, fk - 1) ELSE <<>>,
        varargs        |-> t.varargs /\ fk > Len(sp),
        varkw          |-> t.varkw,
        defaults       |-> IF lo <= fk - 1
                           THEN SelectSeq(SubSeq(sp, lo, fk - 1),
                                          LAMBDA n : \E i \in DOMAIN sp :
                                                sp[i] = n /\ HasDefault(t, i))
                           ELSE <<>>,
        kwonlyargs     |-> moved \cup t.kwonly,
        kwonlydefaults |-> {sp[i] : i \in {j \in DOMAIN sp :
                                j >= fk /\ (HasDefault(t, j) \/ sp[j] \in KwKeys(f.keywords))}}
                           \cup {n \in t.kwonly : n \in t.kwdef \/ n \in KwKeys(f.keywords)}]

\* getfullargspec raises TypeError("unsupported callable")
GetFullArgSpecFails(f) == ~BindPartialOK(f.func, f.args, f.keywords)

\* count_required_arguments without the keyword-only part.
count_required_positional(argspec) ==
    Len(argspec.args) - Len(argspec.defaults)

\* count_required_arguments
count_required_arguments(argspec) ==
    LET n_args == Len(argspec.args) - Len(argspec.defaults)
        n_kw   == Cardinality(argspec.kwonlyargs \ argspec.kwonlydefaults)
    IN n_args + n_kw

----------------------------------------------------------------------------
(* update_argspec, the incremental updater curry_new relies on.             *)

\* Parameters update_argspec declares, and arguments curry_new.wrapped
\* passes to it.
update_argspec_params == 3
update_argspec_given == 4

\* The body of update_argspec: the residual spec, or the failure it raises.
\* The too-many-arguments message formats the undefined variable name, so
\* that path ends in NameError; slicing defaults that are None is a TypeError.
update_argspec(spec, args, kwargs) ==
    LET no_varargs   == ~spec.varargs
        nargs_takes  == Len(spec.args)
        nargs_given  == Len(args)
        nargs_remain == nargs_takes - nargs_given
        nd           == Len(spec.defaults)
    IN IF no_varargs /\ nargs_remain < 0
       THEN [raises |-> "NameError", spec |-> spec]
       ELSE IF nargs_remain > 0 /\ spec.defaults = <<>>
       THEN [raises |-> "TypeError", spec |-> spec]
       ELSE [raises |-> "none",
             spec |-> [args           |-> IF nargs_remain > 0
                                          THEN SubSeq(spec.args, nargs_given + 1, nargs_takes)
                                          ELSE <<>>,
                       varargs        |-> spec.varargs,
                       varkw          |-> spec.varkw,
                       defaults       |-> IF nargs_remain > 0
                                          THEN IF nargs_remain >= nd THEN spec.defaults
                                               ELSE SubSeq(spec.defaults, nd - nargs_remain + 1, nd)
                                          ELSE <<>>,
                       kwonlyargs     |-> spec.kwonlyargs,
                       kwonlydefaults |-> spec.kwonlydefaults]]

----------------------------------------------------------------------------
(* Wrapped and wraps: the proxy holds the metadata source (unwrapped) and   *)
(* the wrapped closure; the closure of curry holds f, the closure of        *)
(* curry_new holds f and the cached argspec (<<>> is None).                 *)

Wrapped(unwrapped, engine, f, argspec) ==
    [unwrapped |-> unwrapped, engine |-> engine, f |-> f, argspec |-> argspec]

\* Wrapped.__doc__: the doc of the metadata source.  A partial object carries
\* the docstring of the partial class, not the target's.
DocOf(f) == IF f.kind = "partial" THEN "doc of functools.partial" ELSE f.func.doc

WrappedDoc(w) == DocOf(w.unwrapped)

\* Wrapped.__signature__: inspect.signature of the metadata source.  Unlike
\* getfullargspec it leaves out the self of a bound method.
SignatureOf(f) == FullArgSpec([f EXCEPT !.func.bound = FALSE])

WrappedSignature(w) == SignatureOf(w.unwrapped)

\* curry(f) past the callable check: wraps(f)(wrapped)
curry(f) == Wrapped(f, "curry", f, <<>>)

\* curry_new(f, argspec) past the callable check
curry_new(f, argspec) == Wrapped(f, "curry_new", f, argspec)

\* How an invocation ends: ret is "result" (r is returned), "raise" (r is
\* raised) or "curry" (a curried fp is returned); the counters record the
\* calls of the target, the signature inspections and the partial objects made.
Ending(ret, r, fp, ninspect, npartial) ==
    [ret |-> ret, r |-> r, fp |-> fp,
     ncalls |-> 1, ninspect |-> ninspect, npartial |-> npartial]

\* The except TypeError branch of curry.wrapped: r is the failure of the
\* direct call, fp the partial object of the accumulated arguments.
slow_path(r, fp) ==
    IF GetFullArgSpecFails(fp) THEN Ending("raise", r, fp, 1, 1)
    ELSE IF count_required_arguments(FullArgSpec(fp)) > 0 THEN Ending("curry", r, fp, 1, 1)
    ELSE Ending("raise", r, fp, 1, 1)

\* curry.wrapped that builds and inspects the partial object before the call.
wrapped_eager(f, args, kwargs) ==
    LET r  == Call(f, args, kwargs)
        fp == Partial(f, args, kwargs)
    IN IF r.kind = "value" THEN Ending("result", r, fp, 1, 1)
       ELSE IF r.exc # "TypeError" THEN Ending("raise", r, fp, 1, 1)
       ELSE slow_path(r, fp)

\* curry.wrapped with "except Exception" in place of "except TypeError".
wrapped_catch_all(f, args, kwargs) ==
    LET r  == Call(f, args, kwargs)
        fp == Partial(f, args, kwargs)
    IN IF r.kind = "value" THEN Ending("result", r, f, 0, 0)
       ELSE slow_path(r, fp)

\* The body of curry.wrapped for the closure variable f.
wrapped(f, args, kwargs) ==
    LET r  == Call(f, args, kwargs)
        fp == Partial(f, args, kwargs)
    IN IF r.kind = "value" THEN Ending("result", r, f, 0, 0)
       ELSE IF r.exc # "TypeError" THEN Ending("raise", r, f, 0, 0)
       ELSE slow_path(r, fp)

\* The body of curry_new.wrapped for the closure variables f and argspec.
\* spec is the value argspec has afterwards.
wrapped_new(f, argspec, args, kwargs) ==
    LET r     == Call(f, args, kwargs)
        fresh == argspec = <<>>
        spec  == IF fresh THEN FullArgSpec(f) ELSE argspec[1]
        insp  == IF fresh THEN 1 ELSE 0
        upd   == IF update_argspec_given # update_argspec_params
                 THEN [raises |-> "TypeError", spec |-> spec]
                 ELSE update_argspec(spec, args, kwargs)
        fp    == Partial(f, args, kwargs)
    IN IF r.kind = "value"
       THEN [ret |-> "result", r |-> r, fp |-> f, argspec |-> argspec, next |-> argspec,
             ncalls |-> 1, ninspect |-> 0, npartial |-> 0]
       ELSE IF r.exc # "TypeError"
       THEN [ret |-> "raise", r |-> r, fp |-> f, argspec |-> argspec, next |-> argspec,
             ncalls |-> 1, ninspect |-> 0, npartial |-> 0]
       ELSE IF fresh /\ GetFullArgSpecFails(f)
       THEN [ret |-> "raise", r |-> Raise("TypeError", "unsupported callable"),
             fp |-> f, argspec |-> argspec, next |-> argspec,
             ncalls |-> 1, ninspect |-> 1, npartial |-> 0]
       ELSE IF upd.raises = "NameError"
       THEN [ret |-> "raise", r |-> Raise("NameError", "name is not defined"),
             fp |-> f, argspec |-> <<spec>>, next |-> <<spec>>,
             ncalls |-> 1, ninspect |-> insp, npartial |-> 0]
       ELSE IF upd.raises = "TypeError"
       THEN [ret |-> "raise", r |-> r, fp |-> f, argspec |-> <<spec>>, next |-> <<spec>>,
             ncalls |-> 1, ninspect |-> insp, npartial |-> 0]
       ELSE IF count_required_arguments(upd.spec) > 0
       THEN [ret |-> "curry", r |-> r, fp |-> fp, argspec |-> <<spec>>, next |-> <<upd.spec>>,
             ncalls |-> 1, ninspect |-> insp, npartial |-> 1]
       ELSE [ret |-> "raise", r |-> r, fp |-> f, argspec |-> <<spec>>, next |-> <<spec>>,
             ncalls |-> 1, ninspect |-> insp, npartial |-> 0]

----------------------------------------------------------------------------
(* State.  subject is the object the program curries; heap holds the        *)
(* curried values created so far; made records, for each of them, the       *)
(* target it was curried from and the argument groups it was fed, written   *)
(* once when the value is created; last is what the latest operation did.   *)

VARIABLES subject, heap, made, last

\* State of the signature workbench: the binding under inspection and what
\* the inspector or the incremental updater made of the latest delta.
VARIABLES probe

\* State of a memoize object (testing.py): memory is its list of (key, value)
\* pairs; history records the calls made to it so far.
VARIABLES memory, history

\* State of the sample_type_of singleton (testing.py): depth is its counter;
\* frames holds the calls in progress, innermost last; event is what the
\* latest step did.
VARIABLES depth, frames, event

vars == <<subject, heap, made, last, probe, memory, history, depth, frames, event>>

\* The variables the currying engine does not touch.
testing == <<probe, memory, history, depth, frames, event>>

ArgLists == UNION {[1..n -> Values] : n \in 0..MaxArgs}

\* Ordered keyword dicts with at most MaxKw distinct names.
KwLists ==
    {kw \in UNION {[1..n -> KwNames \X KwValues] : n \in 0..MaxKw} :
        \A i, j \in DOMAIN kw : i # j => kw[i][1] # kw[j][1]}

NotCallable == Raise("TypeError", "object is not callable")

Curried(ref) == [kind |-> "curried", ref |-> ref]

\* No operation under observation.
Idle == [op |-> "idle", cv |-> 0, args |-> <<>>, kw |-> <<>>,
         out |-> Curried(0), ncalls |-> 0, ninspect |-> 0, npartial |-> 0]

\* No delta inspected yet: the binding is the bare target.
NoProbe(t) ==
    [op |-> "none", n |-> 0, f |-> Function(t), args |-> <<>>, kw |-> <<>>,
     fp |-> Function(t), raises |-> "none", spec |-> FullArgSpec(Function(t)),
     required |-> count_required_arguments(FullArgSpec(Function(t)))]

\* No step of sample_type_of taken yet.
NoEvent == [kind |-> "none", at |-> 0, calls |-> 0, origin |-> 0]

\* Nothing but the engine is in use: no memoize object has been called and
\* the sample_type_of singleton is as its constructor left it.
TestingIdle ==
    /\ probe = NoProbe(nullary)
    /\ memory = <<>>
    /\ history = <<>>
    /\ depth = 0
    /\ frames = <<>>
    /\ event = NoEvent

Init ==
    /\ subject \in Objects
    /\ heap = <<>>
    /\ made = <<>>
    /\ last = Idle
    /\ TestingIdle

\* A deferral that also rebinds the invoked proxy to the enlarged binding.
HeapAfterCurryInPlace(h, i, w) == Append([h EXCEPT ![i] = w], w)

\* The heap after "return curry(fp)": a new proxy, the invoked one untouched.
HeapAfterCurry(h, i, w) == Append(h, w)

\* curry(subject) or curry_new(subject): the callable check, then the proxy.
\* The program curries its subject once; everything else derives from it.
Construct(engine) ==
    /\ last = Idle
    /\ heap = <<>>
    /\ IF ~Callable(subject)
       THEN /\ last' = [op |-> engine, cv |-> 0, args |-> <<>>, kw |-> <<>>,
                        out |-> NotCallable,
                        ncalls |-> 0, ninspect |-> 0, npartial |-> 0]
            /\ UNCHANGED <<heap, made>>
       ELSE /\ heap' = Append(heap, IF engine = "curry"
                                    THEN curry(Function(subject))
                                    ELSE curry_new(Function(subject), <<>>))
            /\ made' = Append(made, <<>>)
            /\ last' = [op |-> engine, cv |-> 0, args |-> <<>>, kw |-> <<>>,
                        out |-> Curried(Len(heap) + 1),
                        ncalls |-> 0, ninspect |-> 0, npartial |-> 0]
    /\ UNCHANGED <<subject, testing>>

Curry == Construct("curry")

CurryNew == Construct("curry_new")

Outcome(w, ref) == IF w.ret = "curry" THEN Curried(ref) ELSE w.r

\* Invocation of the curried value heap[i] made by curry.
Invoke(i, args, kw) ==
    /\ last = Idle
    /\ heap[i].engine = "curry"
    /\ LET w == wrapped(heap[i].f, args, kw) IN
       /\ w.ret = "curry" => Len(heap) < MaxHeap
       /\ heap' = IF w.ret = "curry" THEN HeapAfterCurry(heap, i, curry(w.fp)) ELSE heap
       /\ made' = IF w.ret = "curry" THEN Append(made, Append(made[i], <<args, kw>>)) ELSE made
       /\ last' = [op |-> "invoke", cv |-> i, args |-> args, kw |-> kw,
                   out |-> Outcome(w, Len(heap) + 1),
                   ncalls |-> w.ncalls, ninspect |-> w.ninspect, npartial |-> w.npartial]
    /\ UNCHANGED <<subject, testing>>

\* Invocation of the curried value heap[i] made by curry_new; the closure
\* keeps the argspec it looked up.
InvokeNew(i, args, kw) ==
    /\ last = Idle
    /\ heap[i].engine = "curry_new"
    /\ LET w  == wrapped_new(heap[i].f, heap[i].argspec, args, kw)
           h1 == [heap EXCEPT ![i].argspec = w.argspec]
       IN
       /\ w.ret = "curry" => Len(heap) < MaxHeap
       /\ heap' = IF w.ret = "curry" THEN Append(h1, curry_new(w.fp, w.next)) ELSE h1
       /\ made' = IF w.ret = "curry" THEN Append(made, Append(made[i], <<args, kw>>)) ELSE made
       /\ last' = [op |-> "invoke_new", cv |-> i, args |-> args, kw |-> kw,
                   out |-> Outcome(w, Len(heap) + 1),
                   ncalls |-> w.ncalls, ninspect |-> w.ninspect, npartial |-> w.npartial]
    /\ UNCHANGED <<subject, testing>>

\* The caller has seen the outcome of its call and goes on to the next one.
Resume ==
    /\ last # Idle
    /\ last' = Idle
    /\ UNCHANGED <<subject, heap, made, testing>>

Next ==
    \/ Resume
    \/ Curry
    \/ CurryNew
    \/ \E i \in DOMAIN heap, args \in ArgLists, kw \in KwLists : Invoke(i, args, kw)
    \/ \E i \in DOMAIN heap, args \in ArgLists, kw \in KwLists : InvokeNew(i, args, kw)

Spec == Init /\ [][Next]_vars

----------------------------------------------------------------------------
(* Vocabulary of the claims.  The accumulated binding of an invocation is   *)
(* read off the record made, not off the proxy: the groups the invoked      *)
(* value was fed when it was created, then the group of this invocation.    *)

RECURSIVE FlatArgs(_)
FlatArgs(groups) ==
    IF groups = <<>> THEN <<>> ELSE Head(groups)[1] \o FlatArgs(Tail(groups))

RECURSIVE FlatKw(_)
FlatKw(groups) ==
    IF groups = <<>> THEN <<>>
    ELSE KwMerge(FlatKw(SubSeq(groups, 1, Len(groups) - 1)), groups[Len(groups)][2])

Invoked == last.op = "invoke"

AccArgs == FlatArgs(made[last.cv]) \o last.args

AccKw == KwMerge(FlatKw(made[last.cv]), last.kw)

\* The single direct call of the target with everything supplied so far.
Direct == Apply(subject, AccArgs, AccKw)

StructuralFailures ==
    {"multiple values for argument", "unexpected keyword argument",
     "too many positional arguments"}

\* The accumulated binding is structurally invalid.
Invalid == Direct.kind = "raise" /\ Direct.why \in StructuralFailures

\* The accumulated binding is valid but leaves a required parameter unbound.
Incomplete == Direct.kind = "raise" /\ Direct.why = "missing required arguments"

\* The accumulated binding is valid and complete: the body of the target ran.
Complete == ~Invalid /\ ~Incomplete

\* The number of required positional parameters of the subject.
RequiredPositional == Len(subject.pos) - subject.ndef

\* The invocation is a step of feeding positional groups, all non-empty, to a
\* target whose required parameters are its RequiredPositional positional ones.
PositionalChain ==
    /\ Invoked
    /\ subject.kwonly \ subject.kwdef = {}
    /\ AccKw = <<>>
    /\ last.args # <<>>
    /\ \A g \in DOMAIN made[last.cv] : made[last.cv][g][1] # <<>>
    /\ Len(AccArgs) <= RequiredPositional

----------------------------------------------------------------------------
(* The claims.                                                              *)

\* C1: feeding curry(f) the consecutive non-empty groups of an n-length
\* argument list, for a target with n required positional parameters: every
\* step before the last returns a curried value, and the last step returns
\* what the single direct call f(a1..an) returns.
C1_Associativity ==
    PositionalChain =>
        /\ Len(AccArgs) < RequiredPositional => last.out.kind = "curried"
        /\ (Len(AccArgs) = RequiredPositional /\ Direct.kind = "value") => last.out = Direct

\* curry(addThree)(a)(b)(c): the third step returns the result.
C1_Witness ==
    /\ PositionalChain
    /\ subject = addThree
    /\ Len(made[last.cv]) = 2
    /\ last.out.kind = "value"

\* C2 (as claimed): when the accumulated binding is valid and complete and the
\* target raises TypeError inside its computation, the invocation raises that
\* same failure and returns no curried value.
C2_Claim ==
    (Invoked /\ Complete /\ Direct.kind = "raise" /\ Direct.exc = "TypeError")
        => last.out = Direct

\* C3 (as claimed): when the accumulated binding is structurally invalid the
\* invocation raises the failure of the direct call attempt and returns no
\* curried value.
C3_Claim ==
    (Invoked /\ Invalid) => last.out = Direct

\* C4: when the accumulated binding is valid but leaves a required parameter
\* unbound, the invocation raises nothing and returns a new curried value of
\* the same engine holding the target and all accumulated arguments.
C4_Defers ==
    (Invoked /\ Incomplete) =>
        /\ last.out.kind = "curried"
        /\ last.out.ref \in DOMAIN heap
        /\ last.out.ref # last.cv
        /\ heap[last.out.ref].engine = "curry"
        /\ heap[last.out.ref].f =
              [kind |-> "partial", func |-> subject, args |-> AccArgs, keywords |-> AccKw]

\* A curried value that is not the first one is invoked with a named
\* argument and defers again.
C4_Witness ==
    /\ Invoked
    /\ Incomplete
    /\ last.cv > 1
    /\ last.kw # <<>>
    /\ made[last.cv] # <<>>
    /\ last.out.kind = "curried"

\* C5 (as claimed): every curried value reports the metadata (doc, displayed
\* signature) of the original unbound target.
C5_Claim ==
    \A i \in DOMAIN heap :
        /\ WrappedDoc(heap[i]) = subject.doc
        /\ WrappedSignature(heap[i]) = SignatureOf(Function(subject))

\* C6: whenever the direct call returns normally, the invocation returns that
\* result, inspects no signature, creates no partial binding and calls the
\* target once.
C6_FastPath ==
    (Invoked /\ Direct.kind = "value") =>
        /\ last.out = Direct
        /\ last.ninspect = 0
        /\ last.npartial = 0
        /\ last.ncalls = 1

\* The zero-parameter target is called through curry.
C6_Witness ==
    /\ Invoked
    /\ subject = nullary
    /\ last.out.kind = "value"
    /\ last.ncalls = 1

\* C7: when the direct call raises a failure other than TypeError, the
\* invocation raises that failure, consults no inspector, creates no partial
\* binding and returns no curried value.
C7_OtherFailure ==
    (Invoked /\ Direct.kind = "raise" /\ Direct.exc # "TypeError") =>
        /\ last.out = Direct
        /\ last.ninspect = 0
        /\ last.npartial = 0

\* The body of chk raises ValueError through a curried value that already
\* holds arguments.
C7_Witness ==
    /\ Invoked
    /\ last.cv > 1
    /\ last.out.kind = "raise"
    /\ last.out.exc = "ValueError"

\* C8: curry and curry_new applied to a non-callable fail with the
\* not-callable failure at construction: no curried value exists and nothing
\* was called.
C8_NotCallable ==
    subject \in NonCallables =>
        /\ heap = <<>>
        /\ last.op \in {"curry", "curry_new"} => (last.out = NotCallable /\ last.ncalls = 0)

\* curry_new has just been applied to the non-callable.
C8_Witness ==
    /\ subject \in NonCallables
    /\ last.op = "curry_new"
    /\ last.out = NotCallable

\* C9: a curried value holds, whatever was invoked since, exactly the target
\* and the arguments it was created with, and an invocation that returns or
\* raises gives what the direct call with those arguments and this group gives.
C9_Immutable ==
    /\ \A i \in DOMAIN heap :
          /\ heap[i].f.func = subject
          /\ heap[i].f.args = FlatArgs(made[i])
          /\ heap[i].f.keywords = FlatKw(made[i])
    /\ (Invoked /\ last.out.kind # "curried") => last.out = Direct

\* g was invoked and deferred (some later value derives from it), and g is
\* invoked again with another group and returns the target's result.
C9_Witness ==
    /\ Invoked
    /\ last.cv > 1
    /\ last.out.kind = "value"
    /\ \E j \in DOMAIN made :
          /\ j > last.cv
          /\ Len(made[j]) = Len(made[last.cv]) + 1
          /\ SubSeq(made[j], 1, Len(made[last.cv])) = made[last.cv]
          /\ made[j][Len(made[j])] # <<last.args, last.kw>>

\* C10 (as claimed): a target with a * collector never has positional
\* arguments rejected as too many, and once its required parameters are bound
\* an invocation returns its result or raises its failure, never a new
\* curried value.
C10_Claim ==
    (Invoked /\ subject.varargs) =>
        /\ ~(last.out.kind = "raise" /\ last.out.why = "too many positional arguments")
        /\ ~Incomplete => last.out = Direct

----------------------------------------------------------------------------
(* The signature workbench: the residual signature of a target under a      *)
(* growing binding, computed from scratch by the inspector as curry.wrapped *)
(* does (partial object, getfullargspec, count_required_arguments) and, for *)
(* the same delta, by update_argspec from the signature computed before.    *)

\* Deltas applied to one target.
MaxBind == 2

\* fp = functools.partial(f, args, kwargs); spec = getfullargspec(fp);
\* count_required_arguments(spec).  An accepted delta becomes part of the
\* binding the next delta is applied to.
Inspect(args, kw) ==
    /\ probe.n < MaxBind
    /\ LET f     == probe.fp
           fp    == Partial(f, args, kw)
           fails == GetFullArgSpecFails(fp)
       IN probe' = [op |-> "inspect", n |-> probe.n + 1, f |-> f,
                    args |-> args, kw |-> kw,
                    fp |-> IF fails THEN f ELSE fp,
                    raises |-> IF fails THEN "TypeError" ELSE "none",
                    spec |-> IF fails THEN FullArgSpec(f) ELSE FullArgSpec(fp),
                    required |-> IF fails THEN 0
                                 ELSE count_required_arguments(FullArgSpec(fp))]
    /\ UNCHANGED <<subject, heap, made, last, memory, history, depth, frames, event>>

\* update_argspec(spec, args, kwargs) for the signature computed before; the
\* binding under inspection stays as it is.
Update(args, kw) ==
    /\ probe.n < MaxBind
    /\ LET f   == probe.fp
           upd == update_argspec(FullArgSpec(f), args, kw)
       IN probe' = [op |-> "update", n |-> probe.n + 1, f |-> f,
                    args |-> args, kw |-> kw,
                    fp |-> f,
                    raises |-> upd.raises,
                    spec |-> upd.spec,
                    required |-> IF upd.raises # "none" THEN 0
                                 ELSE count_required_arguments(upd.spec)]
    /\ UNCHANGED <<subject, heap, made, last, memory, history, depth, frames, event>>

InitInspect ==
    /\ subject \in Targets
    /\ heap = <<>>
    /\ made = <<>>
    /\ last = Idle
    /\ probe = NoProbe(subject)
    /\ memory = <<>>
    /\ history = <<>>
    /\ depth = 0
    /\ frames = <<>>
    /\ event = NoEvent

NextInspect ==
    \/ \E args \in ArgLists, kw \in KwLists : Inspect(args, kw)
    \/ \E args \in ArgLists, kw \in KwLists : Update(args, kw)

SpecInspect == InitInspect /\ [][NextInspect]_vars

\* The binding the latest delta was added to, with that delta.
ProbeArgs == probe.f.args \o probe.args

ProbeKw == KwMerge(probe.f.keywords, probe.kw)

\* The interpreter accepts that binding for the target (it may be incomplete).
ProbeValid ==
    LET r == Apply(subject, ProbeArgs, ProbeKw)
    IN ~(r.kind = "raise" /\ r.why \in StructuralFailures)

\* The parameters without default that the binding leaves unbound.
ProbeUnbound == MissingParams(subject, Len(ProbeArgs), ProbeKw)

\* C11: for every target and every structurally valid accumulated binding,
\* the required-parameter count computed from the residual signature is the
\* number of parameters without default that are bound neither positionally
\* nor by name; it is never negative and it is 0 exactly when every such
\* parameter is supplied.
C11_Claim ==
    (probe.op = "inspect" /\ ProbeValid) =>
        /\ probe.raises = "none"
        /\ probe.required = Cardinality(ProbeUnbound)
        /\ probe.required >= 0
        /\ (probe.required = 0 <=> ProbeUnbound = {})

\* C12: for every previously computed signature and every delta, the
\* incremental updater update_argspec rejects exactly the deltas the
\* inspector rejects for the same accumulated binding, and otherwise yields
\* a residual signature whose required-parameter count is the one the
\* inspector computes from scratch.
C12_Claim ==
    probe.op = "update" =>
        LET fp      == Partial(probe.f, probe.args, probe.kw)
            rejects == GetFullArgSpecFails(fp)
        IN /\ probe.raises # "none" <=> rejects
           /\ ~rejects => probe.required = count_required_arguments(FullArgSpec(fp))

----------------------------------------------------------------------------
(* curry_new against curry.                                                 *)

\* What curry.wrapped does with the arguments of the latest invocation of a
\* curry_new value: the same closure variable f, the same argument group.
SameStepOfCurry == wrapped(heap[last.cv].f, last.args, last.kw)

\* C13: curry_new is observably equivalent to curry: each step of
\* curry_new(f) returns a new curried value exactly when the same step of
\* curry(f) does, returns the target's result when curry does, and raises
\* the same failure when curry raises.
C13_Claim ==
    last.op = "invoke_new" =>
        /\ last.out.kind = "curried" <=> SameStepOfCurry.ret = "curry"
        /\ SameStepOfCurry.ret # "curry" => last.out = SameStepOfCurry.r

----------------------------------------------------------------------------
(* memoize (testing.py): a callable object holding a function f and a list  *)
(* of (key, value) pairs.  sample_function wraps "lambda _: draw(b)", a     *)
(* function that yields a freshly drawn value on every invocation, so what  *)
(* f gives for a key is a nondeterministic choice; like any callable, it    *)
(* may also raise.                                                          *)

\* Calls made to one memoize object.
MaxCalls == 4

\* Keys of the calls: the integer 1, the float 1.0 and the integer 2.
Keys == {"1", "1.0", "2"}

\* The number a key denotes.
Number(k) == IF k = "2" THEN "two" ELSE "one"

\* What f(x) does: it returns one of these values or raises.
FValues == {"a", "b"}

FOutcomes == FValues \cup {"raise"}

\* Comparison of the keys by identity.
PyIs(a, b) == a = b

\* key == x: numbers of different types are equal when they denote the same
\* number.
PyEq(a, b) == Number(a) = Number(b)

\* The for loop of memoize.__call__: the index of the first pair whose key
\* equals x, 0 when the loop runs to its end.
Lookup(mem, x) ==
    LET S == {i \in DOMAIN mem : PyEq(mem[i][1], x)}
    IN IF S = {} THEN 0 ELSE Min(S)

\* memoize.__call__(x), y being what f(x) does if it is invoked.
memoize_call(mem, x, y) ==
    LET i == Lookup(mem, x)
    IN IF i > 0 THEN [memory |-> mem, out |-> mem[i][2], invoked |-> FALSE]
       ELSE IF y = "raise" THEN [memory |-> mem, out |-> "raise", invoked |-> TRUE]
       ELSE [memory |-> Append(mem, <<x, y>>), out |-> y, invoked |-> TRUE]

\* A call of the memoize object with key x.
MemoizeCall(x) ==
    /\ Len(history) < MaxCalls
    /\ \E y \in FOutcomes :
          LET c == memoize_call(memory, x, y)
          IN /\ memory' = c.memory
             /\ history' = Append(history, [key |-> x, out |-> c.out, invoked |-> c.invoked])
    /\ UNCHANGED <<subject, heap, made, last, probe, depth, frames, event>>

\* sample_function: a new memoize object with a list of its own.
SampleFunction ==
    /\ history # <<>>
    /\ memory' = <<>>
    /\ history' = <<>>
    /\ UNCHANGED <<subject, heap, made, last, probe, depth, frames, event>>

InitMemoize ==
    /\ subject = nullary
    /\ heap = <<>>
    /\ made = <<>>
    /\ last = Idle
    /\ probe = NoProbe(nullary)
    /\ memory = <<>>
    /\ history = <<>>
    /\ depth = 0
    /\ frames = <<>>
    /\ event = NoEvent

NextMemoize ==
    \/ SampleFunction
    \/ \E x \in Keys : MemoizeCall(x)

SpecMemoize == InitMemoize /\ [][NextMemoize]_vars

\* Two keys are equal.
EqualKeys(a, b) == Number(a) = Number(b)

\* Call j comes after call i and has an equal key.
Repeats(i, j) == i < j /\ EqualKeys(history[i].key, history[j].key)

\* The calls in which f was invoked with a key equal to k.
Invocations(k) ==
    {i \in DOMAIN history : history[i].invoked /\ EqualKeys(history[i].key, k)}

\* The calls in which f was invoked and returned.
Returned == {i \in DOMAIN history : history[i].invoked /\ history[i].out # "raise"}

\* What the calls of the history have put in the list, in their order.
Stored ==
    LET sel == SelectSeq(history, LAMBDA c : c.invoked /\ c.out # "raise")
    IN [i \in DOMAIN sel |-> <<sel[i].key, sel[i].out>>]

NoEqualKeys ==
    \A i, j \in DOMAIN memory : i # j => ~EqualKeys(memory[i][1], memory[j][1])

\* C14 as stated: a call with a key equal to the key of an earlier call
\* returns the value of that earlier call without invoking f again; f is
\* invoked at most once per distinct key; the list only grows and never
\* holds two entries with equal keys.
C14_Claim ==
    /\ \A i, j \in DOMAIN history :
          Repeats(i, j) => ~history[j].invoked /\ history[j].out = history[i].out
    /\ \A k \in Keys : Cardinality(Invocations(k)) <= 1
    /\ memory = Stored
    /\ NoEqualKeys

\* C14, amended: a call with a key equal to the key of an earlier call in
\* which f returned gives that value back without invoking f again; f returns
\* at most once per distinct key (a call in which f raises stores nothing, so
\* the next call with an equal key invokes f again); the list holds what the
\* returning invocations stored, in their order, and never two entries with
\* equal keys.
C14_Memoized ==
    /\ \A i, j \in DOMAIN history :
          (Repeats(i, j) /\ history[i].out # "raise") =>
              ~history[j].invoked /\ history[j].out = history[i].out
    /\ \A k \in Keys : Cardinality(Invocations(k) \cap Returned) <= 1
    /\ memory = Stored
    /\ NoEqualKeys

\* f raised for the integer 1, returned for it on the next call, and a later
\* call with the float 1.0 was answered from the list.
C14_Witness ==
    \E h, i, j \in DOMAIN history :
        /\ h < i /\ i < j
        /\ history[h].key = "1" /\ history[h].out = "raise"
        /\ history[i].key = "1" /\ history[i].invoked /\ history[i].out # "raise"
        /\ history[j].key = "1.0" /\ ~history[j].invoked
        /\ history[j].out = history[i].out

----------------------------------------------------------------------------
(* sample_type_of (testing.py): a singleton with a depth counter.  A call   *)
(* walks over types() and asks the sampler f for a strategy of each type;   *)
(* a sampler may itself call sample_type_of before it returns, as           *)
(* Contravariant.sample_type does through testing.sample_type, so calls     *)
(* nest.  A frame is a call in progress: i is the position in types() of    *)
(* the type being sampled and got the positions that yielded a strategy.    *)

\* Length of types().
MaxTypes == 2

\* The literal of "if self.__depth > 3".
DepthLimit == 3

NewFrame == [i |-> 1, got |-> {}]

Top == frames[Len(frames)]

Pop(fs) == SubSeq(fs, 1, Len(fs) - 1)

\* An exception is on its way out through the calls in progress.
InFlight == event.kind \in {"raise", "unwind"} /\ frames # <<>>

\* The innermost call is inside try_sample(cls) for the type at Top.i.
Sampling == frames # <<>> /\ ~InFlight /\ Top.i <= MaxTypes

\* The counter after an exception has left the body of the call, had the
\* decrement been written after the statement and not in a finally clause.
depth_after_raise_unprotected(d) == d

\* The counter after an exception has left the try statement: the finally
\* clause has run.
depth_after_raise(d) == d - 1

\* sample_type_of(f), called by a test or by the sampler of the type that the
\* innermost call is sampling.
SampleTypeOf ==
    /\ ~InFlight
    /\ IF frames = <<>> THEN TRUE ELSE Top.i <= MaxTypes
    /\ IF depth > DepthLimit
       THEN /\ event' = [kind |-> "nothing", at |-> depth, calls |-> Len(frames), origin |-> 0]
            /\ UNCHANGED <<depth, frames>>
       ELSE /\ depth' = depth + 1
            /\ frames' = Append(frames, NewFrame)
            /\ event' = [kind |-> "enter", at |-> depth, calls |-> Len(frames), origin |-> 0]
    /\ UNCHANGED <<subject, heap, made, last, probe, memory, history>>

\* try_sample(cls): f(cls) returns a strategy.
TrySampleReturns ==
    /\ Sampling
    /\ frames' = [frames EXCEPT ![Len(frames)] = [i |-> @.i + 1, got |-> @.got \cup {@.i}]]
    /\ event' = [kind |-> "sampled", at |-> depth, calls |-> Len(frames), origin |-> 0]
    /\ UNCHANGED <<subject, heap, made, last, probe, memory, history, depth>>

\* try_sample(cls): f(cls) raises AttributeError; None is returned and
\* filter drops it.
TrySampleAttributeError ==
    /\ Sampling
    /\ frames' = [frames EXCEPT ![Len(frames)] = [i |-> @.i + 1, got |-> @.got]]
    /\ event' = [kind |-> "skipped", at |-> depth, calls |-> Len(frames), origin |-> 0]
    /\ UNCHANGED <<subject, heap, made, last, probe, memory, history, depth>>

\* try_sample(cls): f(cls) raises something else, which leaves the call.
TrySampleRaises ==
    /\ Sampling
    /\ depth' = depth_after_raise(depth)
    /\ frames' = Pop(frames)
    /\ event' = [kind |-> "raise", at |-> depth, calls |-> Len(frames), origin |-> depth]
    /\ UNCHANGED <<subject, heap, made, last, probe, memory, history>>

\* The exception of a nested call leaves the sampler that made the call, and
\* with it the call that was running that sampler.
Unwind ==
    /\ InFlight
    /\ depth' = depth_after_raise(depth)
    /\ frames' = Pop(frames)
    /\ event' = [kind |-> "unwind", at |-> depth, calls |-> Len(frames), origin |-> event.origin]
    /\ UNCHANGED <<subject, heap, made, last, probe, memory, history>>

\* Every type has been tried: the finally clause, then "return t".
Return ==
    /\ frames # <<>>
    /\ ~InFlight
    /\ Top.i > MaxTypes
    /\ depth' = depth - 1
    /\ frames' = Pop(frames)
    /\ event' = [kind |-> "return", at |-> depth, calls |-> Len(frames), origin |-> 0]
    /\ UNCHANGED <<subject, heap, made, last, probe, memory, history>>

InitSampler ==
    /\ subject = nullary
    /\ heap = <<>>
    /\ made = <<>>
    /\ last = Idle
    /\ probe = NoProbe(nullary)
    /\ memory = <<>>
    /\ history = <<>>
    /\ depth = 0
    /\ frames = <<>>
    /\ event = NoEvent

NextSampler ==
    \/ SampleTypeOf
    \/ TrySampleReturns
    \/ TrySampleAttributeError
    \/ TrySampleRaises
    \/ Unwind
    \/ Return

SpecSampler == InitSampler /\ [][NextSampler]_vars

\* C15: the depth counter of sample_type_of stays within 0..4; a call made
\* while the depth is above 3 returns the empty strategy without sampling a
\* type or changing the counter; every other call puts the counter back to
\* its value at entry when it returns and when sampling raises; an
\* AttributeError of a sampler is swallowed and the type skipped; the counter
\* is 0 whenever no call is in progress.
C15_Depth ==
    /\ depth \in 0..(DepthLimit + 1)
    /\ depth = Len(frames)
    /\ frames = <<>> => depth = 0
    /\ event.kind = "nothing" =>
          /\ event.at > DepthLimit
          /\ depth = event.at
          /\ Len(frames) = event.calls
    /\ event.kind = "enter" =>
          /\ event.at <= DepthLimit
          /\ depth = event.at + 1
    /\ event.kind \in {"return", "raise", "unwind"} =>
          /\ Len(frames) = event.calls - 1
          /\ depth = event.calls - 1
    /\ event.kind = "skipped" =>
          /\ depth = event.at
          /\ Len(frames) = event.calls
          /\ Top.i - 1 \notin Top.got

\* An exception raised by a sampler at depth 4 has left every call in
\* progress.
C15_Witness ==
    /\ event.kind = "unwind"
    /\ event.origin = DepthLimit + 1
    /\ frames = <<>>
    /\ depth = 0

====
